---- MODULE Spec2Model ----
(***************************************************************************)
(* Model of picamtracker/MotionAnalyser.py: the per-frame motion analyser  *)
(* (threshold mask, movement-volume guard, contour rectangles, rectangle   *)
(* merger, noise filter / vector aggregation, delivery to the tracker) and *)
(* its live configuration setters.                                         *)
(*                                                                         *)
(* A rectangle is <<x, y, w, h>> in grid cells.  A motion block is a       *)
(* record [x, y, sad] (int8, int8, uint16).  A frame `a` is kept sparsely: *)
(* a function from a few grid positions <<x, y>> to motion blocks; every   *)
(* other cell of the rows x cols array is the all-zero block ZeroBlock.    *)
(***************************************************************************)
EXTENDS Integers, Sequences, FiniteSets, TLC

VARIABLES
    rows, cols,          \* self.rows, self.cols (fixed per session)
    started,             \* self.started: FALSE = UNCALIBRATED, TRUE = ACTIVE
    maxMovements,        \* self.maxMovements as a fraction <<num, den>>
    vmin, vmax,          \* self.vmin, self.vmax
    minArea, maxArea,    \* self.minArea, self.maxArea
    sadThreshold,        \* self.sadThreshold
    conf,                \* self.config.conf: the shared configuration store
    debug, fobj,         \* self.debug, self.fobj ("None" or "open")
    frame,               \* self.frame
    processed_frames,    \* self.processed_frames
    tracker_sizes,       \* what the tracker got from setup_sizes (<<>> before)
    tracker_setups,      \* number of setup_sizes calls so far
    tracker_calls,       \* calls made to the tracker by the latest operation
    last,                \* the latest operation: its name, inputs and outcome
    contours,            \* removeIntersections in isolation: its input
    merged               \* removeIntersections in isolation: [done, rects]

vars == <<rows, cols, started, maxMovements, vmin, vmax, minArea, maxArea,
          sadThreshold, conf, debug, fobj, frame, processed_frames,
          tracker_sizes, tracker_setups, tracker_calls, last, contours, merged>>

cfgVars == <<vmin, vmax, minArea, maxArea, sadThreshold, conf>>
sessionVars == <<rows, cols, started, maxMovements, debug, fobj, frame,
                 processed_frames, tracker_sizes, tracker_setups>>
mergeVars == <<contours, merged>>

----------------------------------------------------------------------------
(* Bounds of the model                                                     *)

GridRows == 2          \* rows of the small session grid
GridCols == 12         \* columns of the small session grid
MaxFrames == 2         \* analyse calls per behaviour
MergeRows == 2         \* grid of the merger-in-isolation inputs
MergeCols == 9
MaxSide == 2           \* largest side of a merger-in-isolation input rectangle

----------------------------------------------------------------------------
(* Small helpers                                                           *)

Min2(p, q) == IF p <= q THEN p ELSE q
Max2(p, q) == IF p >= q THEN p ELSE q

\* all orderings of a finite set, as sequences without repetition
Orderings(S) ==
    {s \in [1..Cardinality(S) -> S] : \A i, j \in DOMAIN s : i # j => s[i] # s[j]}

RemoveAt(s, k) == [j \in 1..(Len(s) - 1) |-> IF j < k THEN s[j] ELSE s[j + 1]]

----------------------------------------------------------------------------
(* RectangleMerger: intersects / removeIntersections                       *)

extend == 3

\* new lies inside old (first test of the loop body)
NewInOld(xo, yo, wo, ho, xn, yn, wn, hn) ==
    xn >= xo /\ xn + wn <= xo + wo /\ yn >= yo /\ yn + hn <= yo + ho

\* old lies inside new (second test; strict on the left and top edges)
OldInNew(xo, yo, wo, ho, xn, yn, wn, hn) ==
    xo > xn /\ xo + wo <= xn + wn /\ yo > yn /\ yo + ho <= yn + hn

\* variant: one intersecting axis is enough
Near_either(xo, yo, wo, ho, xn, yn, wn, hn, ncols, nrows) ==
    LET x1nn == Max2(xn - extend, 0)
        y1nn == Max2(yn - extend, 0)
        x2nn == Min2(xn + wn + extend, ncols)
        y2nn == Min2(yn + hn + extend, nrows)
    IN  IF xo > x1nn /\ xo + wo <= x2nn /\ yo > y1nn /\ yo + ho <= y2nn
        THEN TRUE
        ELSE \/ (Max2(xo + wo, x2nn) - Min2(xo, x1nn)) <= (wo + wn + 2 * extend)
             \/ (Max2(yo + ho, y2nn) - Min2(yo, y1nn)) <= (ho + hn + 2 * extend)

\* variant: the extended rectangle is not clamped to the grid
Near_noclamp(xo, yo, wo, ho, xn, yn, wn, hn, ncols, nrows) ==
    LET x1nn == xn - extend
        y1nn == yn - extend
        x2nn == xn + wn + extend
        y2nn == yn + hn + extend
    IN  IF xo > x1nn /\ xo + wo <= x2nn /\ yo > y1nn /\ yo + ho <= y2nn
        THEN TRUE
        ELSE /\ (Max2(xo + wo, x2nn) - Min2(xo, x1nn)) <= (wo + wn + 2 * extend)
             /\ (Max2(yo + ho, y2nn) - Min2(yo, y1nn)) <= (ho + hn + 2 * extend)

\* the proximity test: xint and yint of the loop body
Near(xo, yo, wo, ho, xn, yn, wn, hn, ncols, nrows) ==
    LET x1nn == Max2(xn - extend, 0)
        y1nn == Max2(yn - extend, 0)
        x2nn == Min2(xn + wn + extend, ncols)
        y2nn == Min2(yn + hn + extend, nrows)
    IN  IF xo > x1nn /\ xo + wo <= x2nn /\ yo > y1nn /\ yo + ho <= y2nn
        THEN TRUE
        ELSE /\ (Max2(xo + wo, x2nn) - Min2(xo, x1nn)) <= (wo + wn + 2 * extend)
             /\ (Max2(yo + ho, y2nn) - Min2(yo, y1nn)) <= (ho + hn + 2 * extend)

\* union of the 'original' boxes
UnionBox(xo, yo, wo, ho, xn, yn, wn, hn) ==
    LET xmin == Min2(xo, xn)
        xmax == Max2(xo + wo, xn + wn)
        ymin == Min2(yo, yn)
        ymax == Max2(yo + ho, yn + hn)
    IN  <<xmin, ymin, xmax - xmin, ymax - ymin>>

\* The for loop of intersects.  i is the loop's own counter and, because it
\* advances once per iteration, also the position of the list iterator:
\* after rects.pop(i) both move on by one in the shortened list, so the
\* entry that followed the popped one is never visited.
RECURSIVE intersectsLoop(_, _, _, _, _, _, _, _, _)
intersectsLoop(rects, i, append, xn, yn, wn, hn, ncols, nrows) ==
    IF i >= Len(rects)
    THEN IF append THEN Append(rects, <<xn, yn, wn, hn>>) ELSE rects
    ELSE LET o == rects[i + 1]
             xo == o[1]
             yo == o[2]
             wo == o[3]
             ho == o[4]
         IN  IF NewInOld(xo, yo, wo, ho, xn, yn, wn, hn)
             THEN rects
             ELSE IF OldInNew(xo, yo, wo, ho, xn, yn, wn, hn)
             THEN intersectsLoop(RemoveAt(rects, i + 1), i + 1, FALSE,
                                 xn, yn, wn, hn, ncols, nrows)
             ELSE IF Near(xo, yo, wo, ho, xn, yn, wn, hn, ncols, nrows)
             THEN intersectsLoop(
                      [rects EXCEPT ![i + 1] = UnionBox(xo, yo, wo, ho, xn, yn, wn, hn)],
                      i + 1, FALSE, xn, yn, wn, hn, ncols, nrows)
             ELSE intersectsLoop(rects, i + 1, append, xn, yn, wn, hn, ncols, nrows)

intersects(rects, xn, yn, wn, hn, ncols, nrows) ==
    intersectsLoop(rects, 0, TRUE, xn, yn, wn, hn, ncols, nrows)

\* cnts is the sequence of cv2.boundingRect(cnt) of the contours
RECURSIVE removeLoop(_, _, _, _, _, _)
removeLoop(cnts, k, rects, area, ncols, nrows) ==
    IF k > Len(cnts) THEN rects
    ELSE LET c == cnts[k] IN
         IF c[3] * c[4] > area
         THEN removeLoop(cnts, k + 1, rects, area, ncols, nrows)
         ELSE IF Len(rects) > 0
         THEN removeLoop(cnts, k + 1,
                         intersects(rects, c[1], c[2], c[3], c[4], ncols, nrows),
                         area, ncols, nrows)
         ELSE removeLoop(cnts, k + 1, Append(rects, c), area, ncols, nrows)

removeIntersections(cnts, area, ncols, nrows) ==
    removeLoop(cnts, 1, <<>>, area, ncols, nrows)

----------------------------------------------------------------------------
(* Frames: the motion block array `a`                                      *)

ZeroBlock == [x |-> 0, y |-> 0, sad |-> 0]
BlockA == [x |-> 3, y |-> 0, sad |-> 80]
BlockB == [x |-> 4, y |-> 1, sad |-> 80]
Blocks == {ZeroBlock, BlockA, BlockB}

\* the grid and the configuration of the end-to-end example
E2EGrid == [rows |-> 30, cols |-> 40]
E2EConf == [vMin |-> 2, vMax |-> 40, sadThreshold |-> 60, maxArea |-> 40]
SmallGrid == [rows |-> GridRows, cols |-> GridCols]

\* the grid positions <<x, y>> a frame fills: two adjacent cells, which take
\* any block, and a cell near them and a cell far away, which take ZeroBlock
\* or BlockA
PairSites(nrows, ncols) ==
    IF nrows = E2EGrid.rows /\ ncols = E2EGrid.cols
    THEN {<<5, 5>>, <<6, 5>>}
    ELSE {<<0, 0>>, <<1, 0>>}

Sites(nrows, ncols) ==
    {p \in PairSites(nrows, ncols) \cup
           (IF nrows = E2EGrid.rows /\ ncols = E2EGrid.cols
            THEN {<<9, 5>>, <<20, 20>>}
            ELSE {<<4, 0>>, <<ncols - 1, nrows - 1>>}) :
        p[1] \in 0..(ncols - 1) /\ p[2] \in 0..(nrows - 1)}

Frames(nrows, ncols) ==
    {a \in [Sites(nrows, ncols) -> Blocks] :
        \A p \in DOMAIN a : a[p] = BlockB => p \in PairSites(nrows, ncols)}

\* a[py, px]
At(a, px, py) == IF <<px, py>> \in DOMAIN a THEN a[<<px, py>>] ELSE ZeroBlock

\* int8 arithmetic of a['x'], a['y']
Wrap8(v) == ((v + 128) % 256) - 128
Abs8(v) == IF v < 0 THEN Wrap8(0 - v) ELSE v

\* mag = np.abs(a['x']) + np.abs(a['y'])
mag(b) == Wrap8(Abs8(b.x) + Abs8(b.y))

\* np.logical_and(mag > vmin, mag < vmax, out): the third positional
\* argument is the output buffer, so a['sad'] > sadThreshold is overwritten
\* by the result and takes no part in it.
InBand(b, lo, hi, thr) == mag(b) > lo /\ mag(b) < hi

\* has_movement, as the set of positions <<x, y>> where the mask is true
has_movement(a, lo, hi, thr, nrows, ncols) ==
    IF InBand(ZeroBlock, lo, hi, thr)
    THEN {p \in (0..(ncols - 1)) \X (0..(nrows - 1)) : InBand(At(a, p[1], p[2]), lo, hi, thr)}
    ELSE {p \in DOMAIN a : InBand(a[p], lo, hi, thr)}

\* variant: the guard trips already at the cap
OverCap_ge(moving_elements, cap) == moving_elements * cap[2] >= cap[1]

\* variant: the guard allows twice the cap (a quarter of the blocks)
OverCap_quarter(moving_elements, cap) == moving_elements * cap[2] > 2 * cap[1]

\* moving_elements > self.maxMovements, the cap being the fraction num/den
OverCap(moving_elements, cap) == moving_elements * cap[2] > cap[1]

----------------------------------------------------------------------------
(* RegionExtractor: cv2.findContours(RETR_EXTERNAL) + cv2.boundingRect     *)

Adjacent(p, q) ==
    /\ p[1] - q[1] \in {-1, 0, 1}
    /\ p[2] - q[2] \in {-1, 0, 1}

RECURSIVE Grow(_, _)
Grow(S, C) ==
    LET N == {p \in S \ C : \E q \in C : Adjacent(p, q)}
    IN  IF N = {} THEN C ELSE Grow(S, C \cup N)

\* the 8-connected groups of true cells
Components(S) == {Grow(S, {p}) : p \in S}

boundingRect(C) ==
    LET x0 == CHOOSE v \in {p[1] : p \in C} : \A p \in C : v <= p[1]
        x1 == CHOOSE v \in {p[1] : p \in C} : \A p \in C : v >= p[1]
        y0 == CHOOSE v \in {p[2] : p \in C} : \A p \in C : v <= p[2]
        y1 == CHOOSE v \in {p[2] : p \in C} : \A p \in C : v >= p[2]
    IN  <<x0, y0, x1 - x0 + 1, y1 - y0 + 1>>

\* The contour lists findContours may return for a mask: one contour per
\* group; the order of the list is the primitive's own and is left open.
findContours(mask) ==
    {[k \in DOMAIN o |-> boundingRect(o[k])] : o \in Orderings(Components(mask))}

----------------------------------------------------------------------------
(* NoiseFilter & VectorAggregator: the scanning loop of analyse            *)

InRect(p, r) ==
    /\ p[1] >= r[1] /\ p[1] < r[1] + r[3]
    /\ p[2] >= r[2] /\ p[2] < r[2] + r[4]

RECURSIVE SumBlocks(_, _, _)
SumBlocks(S, a, f) ==
    IF S = {} THEN 0
    ELSE LET p == CHOOSE p \in S : TRUE IN a[p][f] + SumBlocks(S \ {p}, a, f)

RECURSIVE SumSquares(_, _, _)
SumSquares(S, a, f) ==
    IF S = {} THEN 0
    ELSE LET p == CHOOSE p \in S : TRUE
         IN  a[p][f] * a[p][f] + SumSquares(S \ {p}, a, f)

\* sum of field f over a[y0:y1, x0:x1]
RectSum(a, r, f) ==
    LET S == {p \in DOMAIN a : InRect(p, r)}
    IN  SumBlocks(S, a, f) + (r[3] * r[4] - Cardinality(S)) * ZeroBlock[f]

RectSumSq(a, r, f) ==
    LET S == {p \in DOMAIN a : InRect(p, r)}
    IN  SumSquares(S, a, f)
        + (r[3] * r[4] - Cardinality(S)) * ZeroBlock[f] * ZeroBlock[f]

\* variant: the mean of sad, not its variance, is held against the threshold
VarBelow_mean(a, r, thr) == RectSum(a, r, "sad") < thr * r[3] * r[4]

\* a[y0:y1, x0:x1]['sad'].var() < 2 * sadThreshold, in exact arithmetic:
\* var = (n * sum(s^2) - sum(s)^2) / n^2 with n = w * h
VarBelow(a, r, thr) ==
    LET n == r[3] * r[4]
        s == RectSum(a, r, "sad")
    IN  n * RectSumSq(a, r, "sad") - s * s < 2 * thr * n * n

\* variant: the scanning loop does not look at the area again
Survives_norecheck(a, r, area, thr) ==
    IF r[3] < 2 /\ r[4] < 2 THEN TRUE ELSE ~VarBelow(a, r, thr)

\* variant: a single cell with a low sad is dropped (the commented-out
\* continue)
Survives_sparkle(a, r, area, thr) ==
    IF r[3] * r[4] > area THEN FALSE
    ELSE IF r[3] < 2 /\ r[4] < 2 THEN ~(At(a, r[1], r[2]).sad < thr)
    ELSE ~VarBelow(a, r, thr)

\* variant: a low variance is counted but the rectangle is kept
Survives_nocontinue(a, r, area, thr) == r[3] * r[4] <= area

\* does the scanning loop append a point for rectangle r?
Survives(a, r, area, thr) ==
    IF r[3] * r[4] > area THEN FALSE
    ELSE IF r[3] < 2 /\ r[4] < 2 THEN TRUE
    ELSE ~VarBelow(a, r, thr)

\* variant: the two components of the vector change places
Point_swapped(a, r) ==
    IF r[3] < 2 /\ r[4] < 2
    THEN [rect |-> r,
          vx |-> <<At(a, r[1], r[2]).y, 1>>,
          vy |-> <<At(a, r[1], r[2]).x, 1>>]
    ELSE [rect |-> r,
          vx |-> <<RectSum(a, r, "y"), r[3] * r[4]>>,
          vy |-> <<RectSum(a, r, "x"), r[3] * r[4]>>]

\* [[x0, y0, w, h], [vx, vy]]; vx and vy are fractions <<sum, count>>
Point(a, r) ==
    IF r[3] < 2 /\ r[4] < 2
    THEN [rect |-> r,
          vx |-> <<At(a, r[1], r[2]).x, 1>>,
          vy |-> <<At(a, r[1], r[2]).y, 1>>]
    ELSE [rect |-> r,
          vx |-> <<RectSum(a, r, "x"), r[3] * r[4]>>,
          vy |-> <<RectSum(a, r, "y"), r[3] * r[4]>>]

new_points(a, rects, area, thr) ==
    LET kept == SelectSeq(rects, LAMBDA r : Survives(a, r, area, thr))
    IN  [k \in DOMAIN kept |-> Point(a, kept[k])]

----------------------------------------------------------------------------
(* Construction                                                            *)

NoFrame == <<>>
NotMerged == [done |-> FALSE, rects |-> <<>>]

Op(name, value, a, outcome) ==
    [op |-> name, value |-> value, a |-> a, started |-> started, outcome |-> outcome]

\* __init__ over a given grid and configuration store
Constructed(grid, store) ==
    /\ rows = grid.rows
    /\ cols = grid.cols
    /\ conf = store
    /\ minArea = 1
    /\ maxArea = store.maxArea
    /\ sadThreshold = store.sadThreshold
    /\ started = FALSE
    /\ vmin = store.vMin
    /\ vmax = store.vMax
    /\ frame = 0
    /\ processed_frames = 0
    /\ maxMovements = <<100, 1>>
    /\ debug = store.debug
    /\ fobj = "None"
    /\ tracker_sizes = <<>>
    /\ tracker_setups = 0
    /\ tracker_calls = <<>>
    /\ last = [op |-> "__init__", value |-> 0, a |-> NoFrame,
               started |-> FALSE, outcome |-> "returned"]

Store(c, area, dbg) ==
    [vMin |-> c.vMin, vMax |-> c.vMax, minArea |-> area, maxArea |-> c.maxArea,
     sadThreshold |-> c.sadThreshold, debug |-> dbg]

----------------------------------------------------------------------------
(* The live setters                                                        *)

Returned(name, value) ==
    /\ last' = Op(name, value, NoFrame, "returned")
    /\ tracker_calls' = <<>>
    /\ UNCHANGED <<rows, cols, started, maxMovements, frame, processed_frames,
                   tracker_sizes, tracker_setups, contours, merged>>

set_debug(value) ==
    /\ IF value
       THEN debug' = TRUE /\ fobj' = fobj
       ELSE debug' = FALSE /\ fobj' = "None"
    /\ Returned("set_debug", value)
    /\ UNCHANGED cfgVars

\* variant: vMax may equal vMin
set_vMax_ge(value) ==
    /\ IF value >= vmin
       THEN vmax' = value /\ conf' = [conf EXCEPT !.vMax = value]
       ELSE UNCHANGED <<vmax, conf>>
    /\ Returned("set_vMax", value)
    /\ UNCHANGED <<vmin, minArea, maxArea, sadThreshold, debug, fobj>>

set_vMax(value) ==
    /\ IF value > vmin
       THEN vmax' = value /\ conf' = [conf EXCEPT !.vMax = value]
       ELSE UNCHANGED <<vmax, conf>>
    /\ Returned("set_vMax", value)
    /\ UNCHANGED <<vmin, minArea, maxArea, sadThreshold, debug, fobj>>

set_vMin(value) ==
    LET v == IF value < 1 THEN 1 ELSE value IN
    /\ vmin' = v
    /\ conf' = [conf EXCEPT !.vMin = v]
    /\ Returned("set_vMin", value)
    /\ UNCHANGED <<vmax, minArea, maxArea, sadThreshold, debug, fobj>>

set_maxArea(value) ==
    /\ IF value > minArea
       THEN maxArea' = value /\ conf' = [conf EXCEPT !.maxArea = value]
       ELSE UNCHANGED <<maxArea, conf>>
    /\ Returned("set_maxArea", value)
    /\ UNCHANGED <<vmin, vmax, minArea, sadThreshold, debug, fobj>>

set_minArea(value) ==
    LET v == IF value < 1 THEN 1 ELSE value IN
    /\ minArea' = v
    /\ conf' = [conf EXCEPT !.minArea = v]
    /\ Returned("set_minArea", value)
    /\ UNCHANGED <<vmin, vmax, maxArea, sadThreshold, debug, fobj>>

set_sadThreshold(value) ==
    /\ IF value >= 0 /\ value < 16384
       THEN sadThreshold' = value /\ conf' = [conf EXCEPT !.sadThreshold = value]
       ELSE UNCHANGED <<sadThreshold, conf>>
    /\ Returned("set_sadThreshold", value)
    /\ UNCHANGED <<vmin, vmax, minArea, maxArea, debug, fobj>>

----------------------------------------------------------------------------
(* analyse                                                                 *)

\* debug_out fails: open() raises and the exception leaves analyse
SinkFails(sink_ok) == debug /\ fobj = "None" /\ ~sink_ok

\* variant: the first frame does not set the flag
Calibrate_nostart ==
    /\ tracker_calls' = <<[op |-> "setup_sizes", rows |-> rows, cols |-> cols - 1]>>
    /\ tracker_sizes' = <<rows, cols - 1>>
    /\ tracker_setups' = tracker_setups + 1
    /\ maxMovements' = <<rows * cols, 8>>
    /\ started' = started

\* the first frame: setup_sizes, the movement cap, started
Calibrate ==
    /\ tracker_calls' = <<[op |-> "setup_sizes", rows |-> rows, cols |-> cols - 1]>>
    /\ tracker_sizes' = <<rows, cols - 1>>
    /\ tracker_setups' = tracker_setups + 1
    /\ maxMovements' = <<rows * cols, 8>>
    /\ started' = TRUE

\* self.tracker.update_tracks(self.frame, new_points)
update_tracks(idx, points) ==
    /\ tracker_calls' = <<[op |-> "update_tracks", frame |-> idx, points |-> points]>>
    /\ UNCHANGED <<tracker_sizes, tracker_setups, maxMovements, started>>

\* the steady-state pipeline after the movement guard, for one contour list
Pipeline(a, cnts) ==
    update_tracks(frame',
        new_points(a, removeIntersections(cnts, maxArea, cols, rows),
                   maxArea, sadThreshold))

\* One call of analyse on frame a.  camera.frame.index is taken to advance by
\* one per call; sink_ok says whether open() in debug_out succeeds when the
\* sink has to be opened.  A call that raises keeps what it had assigned.
analyse(a, sink_ok) ==
    /\ processed_frames < MaxFrames
    /\ frame' = frame + 1
    /\ processed_frames' = processed_frames + 1
    /\ UNCHANGED <<rows, cols, debug, cfgVars, mergeVars>>
    /\ IF SinkFails(sink_ok)
       THEN /\ last' = Op("analyse", 0, a, "raised")
            /\ tracker_calls' = <<>>
            /\ UNCHANGED <<fobj, tracker_sizes, tracker_setups, maxMovements, started>>
       ELSE /\ fobj' = IF debug THEN "open" ELSE fobj
            /\ IF ~started
               THEN /\ Calibrate
                    /\ last' = Op("analyse", 0, a, "calibrated")
               ELSE LET mask == has_movement(a, vmin, vmax, sadThreshold, rows, cols)
                    IN  IF OverCap(Cardinality(mask), maxMovements)
                        THEN /\ tracker_calls' = <<>>
                             /\ last' = Op("analyse", 0, a, "aborted")
                             /\ UNCHANGED <<tracker_sizes, tracker_setups,
                                            maxMovements, started>>
                        ELSE /\ \E cnts \in findContours(mask) : Pipeline(a, cnts)
                             /\ last' = Op("analyse", 0, a, "delivered")

----------------------------------------------------------------------------
(* removeIntersections on its own                                          *)

MergeRects ==
    {<<x, y, w, h>> : x \in 0..(MergeCols - 1), y \in 0..(MergeRows - 1),
                      w \in 1..MaxSide, h \in 1..MaxSide}
    \cap {r \in (0..MergeCols) \X (0..MergeRows) \X (1..MaxSide) \X (1..MaxSide) :
            r[1] + r[3] <= MergeCols /\ r[2] + r[4] <= MergeRows}

\* the input rectangles of height 1 in the top row
TopRects == {r \in MergeRects : r[2] = 0 /\ r[4] = 1}

\* one rectangle, two in either order, or three of the top row in any order
MergeInputs == [1..1 -> MergeRects] \cup [1..2 -> MergeRects] \cup [1..3 -> TopRects]

MergeGrid == [rows |-> MergeRows, cols |-> MergeCols]

RunMerge ==
    /\ ~merged.done
    /\ merged' = [done |-> TRUE,
                  rects |-> removeIntersections(contours, maxArea, cols, rows)]
    /\ UNCHANGED <<contours, cfgVars, sessionVars, tracker_calls, last>>

----------------------------------------------------------------------------
(* Specifications                                                          *)

\* setter arguments tried during a session, and by the setters alone
SessionArgs ==
    [vMax |-> {4}, vMin |-> {4}, maxArea |-> {4}, minArea |-> {0},
     sadThreshold |-> {0, 100}]
CfgVals == {-1, 0, 1, 3, 16383, 16384}
CfgArgs ==
    [vMax |-> CfgVals, vMin |-> CfgVals, maxArea |-> CfgVals, minArea |-> CfgVals,
     sadThreshold |-> CfgVals]

\* the session on the small grid
Init ==
    /\ \E dbg \in BOOLEAN : Constructed(SmallGrid, Store(E2EConf, 1, dbg))
    /\ contours = <<>>
    /\ merged = NotMerged

Setters(Args) ==
    \/ \E value \in Args.vMax : set_vMax(value)
    \/ \E value \in Args.vMin : set_vMin(value)
    \/ \E value \in Args.maxArea : set_maxArea(value)
    \/ \E value \in Args.minArea : set_minArea(value)
    \/ \E value \in Args.sadThreshold : set_sadThreshold(value)

Next ==
    \/ \E a \in Frames(rows, cols), sink_ok \in BOOLEAN :
          /\ (sink_ok \/ (debug /\ fobj = "None"))
          /\ analyse(a, sink_ok)
    \/ \E value \in BOOLEAN : set_debug(value)
    \/ Setters(SessionArgs)

Spec == Init /\ [][Next]_vars

\* the session of the end-to-end example
InitE2E ==
    /\ \E dbg \in BOOLEAN : Constructed(E2EGrid, Store(E2EConf, 1, dbg))
    /\ contours = <<>>
    /\ merged = NotMerged

SpecE2E == InitE2E /\ [][Next]_vars

\* the setters alone, from the valid configurations
InitCfg ==
    /\ \E c \in [vMin : {1, 2}, vMax : {3, 40}, maxArea : {2, 40}, sadThreshold : {60}],
          area \in {1, 5} :
          Constructed(SmallGrid, Store(c, area, FALSE))
    /\ contours = <<>>
    /\ merged = NotMerged

NextCfg == Setters(CfgArgs)

SpecCfg == InitCfg /\ [][NextCfg]_vars

\* removeIntersections alone
InitMerge ==
    /\ \E area \in {2, 4} :
          Constructed(MergeGrid, Store([E2EConf EXCEPT !.maxArea = area], 1, FALSE))
    /\ contours \in MergeInputs
    /\ merged = NotMerged

NextMerge == RunMerge

SpecMerge == InitMerge /\ [][NextMerge]_vars

\* sessions without the diagnostic sink on grids of seven and of eight cells
TinyGrids == {[rows |-> 1, cols |-> 7], [rows |-> 1, cols |-> 8]}

InitGrids ==
    /\ \E grid \in TinyGrids,
          c \in [vMin : {1, 2}, vMax : {4, 40}, maxArea : {2, 40},
                 sadThreshold : {0, 100}] :
          Constructed(grid, Store(c, 1, FALSE))
    /\ contours = <<>>
    /\ merged = NotMerged

NextGrids == \E a \in Frames(rows, cols) : analyse(a, TRUE)

SpecGrids == InitGrids /\ [][NextGrids]_vars

\* sessions on grids without cells, up to the end of calibration
ZeroGrids == {[rows |-> 0, cols |-> GridCols], [rows |-> GridRows, cols |-> 0]}

InitZero ==
    /\ \E grid \in ZeroGrids, dbg \in BOOLEAN :
          Constructed(grid, Store(E2EConf, 1, dbg))
    /\ contours = <<>>
    /\ merged = NotMerged

NextZero ==
    \/ \E a \in Frames(rows, cols), sink_ok \in BOOLEAN :
          /\ ~started
          /\ (sink_ok \/ (debug /\ fobj = "None"))
          /\ analyse(a, sink_ok)
    \/ \E value \in BOOLEAN : set_debug(value)
    \/ Setters(SessionArgs)

SpecZero == InitZero /\ [][NextZero]_vars

----------------------------------------------------------------------------
(* Vocabulary of the properties                                            *)

Area(r) == r[3] * r[4]

\* the calls of the latest operation that deliver a region list
Deliveries == SelectSeq(tracker_calls, LAMBDA c : c.op = "update_tracks")

\* every region handed to the tracker by the latest operation
DeliveredPoints ==
    UNION {{Deliveries[k].points[j] : j \in DOMAIN Deliveries[k].points} :
           k \in DOMAIN Deliveries}

\* an analyse call made in the ACTIVE state that returned to its caller
ActiveAnalyse ==
    last.op = "analyse" /\ last.started /\ last.outcome # "raised"

\* |vx| + |vy| of a block, over the integers
Magnitude(b) ==
    (IF b.x < 0 THEN 0 - b.x ELSE b.x) + (IF b.y < 0 THEN 0 - b.y ELSE b.y)

\* the cells of the latest frame inside the magnitude band
BandCells == {p \in DOMAIN last.a : Magnitude(last.a[p]) > vmin
                                    /\ Magnitude(last.a[p]) < vmax}

\* the frame exceeds the movement cap rows * cols / 8
CapExceeded == 8 * Cardinality(BandCells) > rows * cols

\* the rectangle lists the merger can yield for the latest frame
MergedLists ==
    {removeIntersections(c, maxArea, cols, rows) : c \in findContours(BandCells)}

\* the sad values found in rectangle r of the latest frame
SadValues(r) ==
    LET S == {p \in DOMAIN last.a : InRect(p, r)}
    IN  {last.a[p].sad : p \in S}
        \cup (IF Cardinality(S) < Area(r) THEN {ZeroBlock.sad} ELSE {})

MultiCell(r) == r[3] >= 2 \/ r[4] >= 2

----------------------------------------------------------------------------
(* C1: merging of two rectangles                                           *)

\* B, grown by the margin and clamped to the grid, shares cells with A on
\* both axes
ExpandedOverlap(A, B) ==
    LET x1 == Max2(B[1] - 3, 0)
        y1 == Max2(B[2] - 3, 0)
        x2 == Min2(B[1] + B[3] + 3, cols)
        y2 == Min2(B[2] + B[4] + 3, rows)
    IN  /\ A[1] < x2 /\ x1 < A[1] + A[3]
        /\ A[2] < y2 /\ y1 < A[2] + A[4]

BoundingUnion(A, B) ==
    LET x1 == Min2(A[1], B[1])
        y1 == Min2(A[2], B[2])
        x2 == Max2(A[1] + A[3], B[1] + B[3])
        y2 == Max2(A[2] + A[4], B[2] + B[4])
    IN  <<x1, y1, x2 - x1, y2 - y1>>

PairMerged ==
    /\ merged.done
    /\ Len(contours) = 2
    /\ Area(contours[1]) <= maxArea
    /\ Area(contours[2]) <= maxArea
    /\ ExpandedOverlap(contours[1], contours[2])

\* C1: two rectangles A, B (area <= maxArea) given to removeIntersections in
\* the order A then B, with B's margin-expanded bounds overlapping A on both
\* axes, come back as exactly one rectangle, the union bounding box of A and
\* B; also when A lies strictly inside B.
C1_OverlapMerges ==
    PairMerged => merged.rects = <<BoundingUnion(contours[1], contours[2])>>

C1_Nested ==
    /\ PairMerged
    /\ contours[1][1] > contours[2][1]
    /\ contours[1][2] > contours[2][2]
    /\ merged.rects = <<>>

----------------------------------------------------------------------------
(* C2: one delivery per ACTIVE analyse call                                *)

----------------------------------------------------------------------------
(* C3: the movement cap                                                    *)

----------------------------------------------------------------------------
(* C4: calibration                                                         *)

C4_Inv ==
    /\ processed_frames = 0 => ~started /\ tracker_setups = 0 /\ tracker_calls = <<>>
    /\ (last.op = "analyse" /\ ~last.started /\ last.outcome # "raised") =>
          /\ started
          /\ tracker_calls = <<[op |-> "setup_sizes", rows |-> rows, cols |-> cols - 1]>>
          /\ tracker_sizes = <<rows, cols - 1>>
          /\ maxMovements[1] * 8 = rows * cols * maxMovements[2]
    /\ tracker_setups = (IF started THEN 1 ELSE 0)
    /\ Deliveries # <<>> => last.started /\ tracker_setups = 1

C4_Step ==
    started => /\ started'
               /\ maxMovements' = maxMovements
               /\ tracker_setups' = tracker_setups
               /\ tracker_sizes' = tracker_sizes

----------------------------------------------------------------------------
(* C5, C6: the setters                                                     *)

\* the value breaks the invariant of the parameter the setter writes
Violates(op, v) ==
    \/ op = "set_vMin" /\ v < 1
    \/ op = "set_vMax" /\ v <= vmin
    \/ op = "set_minArea" /\ v < 1
    \/ op = "set_maxArea" /\ v <= minArea
    \/ op = "set_sadThreshold" /\ (v < 0 \/ v > 16383)

\* C5 as claimed: a setter called with a value that violates its parameter's
\* invariant changes neither a threshold nor the configuration store.
C5_Ignored == [][Violates(last'.op, last'.value) => UNCHANGED cfgVars]_vars

C5_Step ==
    LET op == last'.op
        v == last'.value
    IN  /\ (op \in {"set_vMax", "set_maxArea", "set_sadThreshold"} /\ Violates(op, v))
              => UNCHANGED cfgVars
        /\ (op = "set_vMin" /\ v < 1) =>
              /\ vmin' = 1
              /\ conf' = [conf EXCEPT !.vMin = 1]
              /\ UNCHANGED <<vmax, minArea, maxArea, sadThreshold>>
        /\ (op = "set_minArea" /\ v < 1) =>
              /\ minArea' = 1
              /\ conf' = [conf EXCEPT !.minArea = 1]
              /\ UNCHANGED <<vmin, vmax, maxArea, sadThreshold>>

\* C5, amended: set_vMax, set_maxArea and set_sadThreshold ignore a violating
\* value (no threshold and no store entry changes); set_vMin and set_minArea
\* do not ignore a value below 1 but store 1 in the parameter and in its
\* store entry, leaving every other threshold and entry alone.
C5_IgnoredOrClamped == [][C5_Step]_vars

C5_Clamped ==
    /\ last.op = "set_vMin" /\ last.value < 1
    /\ vmin = 1 /\ conf.vMin = 1

\* C6: from a valid configuration, any sequence of setter calls leaves
\* vMin >= 1, vMax > vMin, minArea >= 1, maxArea > minArea and
\* 0 <= sadThreshold <= 16383.
C6_ConfigValid ==
    /\ vmin >= 1
    /\ vmax > vmin
    /\ minArea >= 1
    /\ maxArea > minArea
    /\ sadThreshold >= 0 /\ sadThreshold <= 16383

----------------------------------------------------------------------------
(* C7: maxArea                                                             *)

\* C7: every region handed to update_tracks has w * h <= maxArea, also when
\* the merger has united small rectangles into a larger one.
C7_MaxArea == \A pt \in DeliveredPoints : Area(pt.rect) <= maxArea

C7_OversizeUnion ==
    /\ ActiveAnalyse /\ last.outcome = "delivered"
    /\ \E L \in MergedLists : \E k \in DOMAIN L : Area(L[k]) > maxArea

----------------------------------------------------------------------------
(* C8: the confidence test                                                 *)

\* C8: in the ACTIVE state, when every cell of the frame has
\* sad <= sadThreshold, no cell is marked moving and the delivered region
\* list is empty, whatever the vectors are.
C8_LowSadNoRegion ==
    (/\ ActiveAnalyse
     /\ ZeroBlock.sad <= sadThreshold
     /\ \A p \in DOMAIN last.a : last.a[p].sad <= sadThreshold)
    => /\ has_movement(last.a, vmin, vmax, sadThreshold, rows, cols) = {}
       /\ DeliveredPoints = {}

----------------------------------------------------------------------------
(* C9: zero variance                                                       *)

UniformMultiCell(r) == MultiCell(r) /\ Cardinality(SadValues(r)) = 1

\* C9 as claimed: for every sadThreshold in 0..16383, no delivered region is
\* a multi-cell rectangle whose cells all carry the same sad.
C9_UniformRejected == \A pt \in DeliveredPoints : ~UniformMultiCell(pt.rect)

\* C9, amended: for every sadThreshold in 1..16383, no delivered region is a
\* multi-cell rectangle whose cells all carry the same sad.
C9_UniformRejectedAbove0 ==
    sadThreshold >= 1 => \A pt \in DeliveredPoints : ~UniformMultiCell(pt.rect)

C9_UniformSeen ==
    /\ ActiveAnalyse /\ last.outcome = "delivered"
    /\ sadThreshold >= 1
    /\ \E L \in MergedLists : \E k \in DOMAIN L :
          UniformMultiCell(L[k]) /\ Area(L[k]) <= maxArea

----------------------------------------------------------------------------
(* C10: the end-to-end example                                             *)

E2EFrame ==
    [p \in Sites(E2EGrid.rows, E2EGrid.cols) |->
        IF p = <<5, 5>> THEN BlockA ELSE IF p = <<6, 5>> THEN BlockB ELSE ZeroBlock]

E2ECase ==
    /\ ActiveAnalyse
    /\ rows = E2EGrid.rows /\ cols = E2EGrid.cols
    /\ vmin = E2EConf.vMin /\ vmax = E2EConf.vMax
    /\ sadThreshold = E2EConf.sadThreshold /\ maxArea = E2EConf.maxArea
    /\ last.a = E2EFrame

\* C10 as claimed: the example frame delivers exactly one region, rectangle
\* (5, 5, 2, 1) with vector (3.5, 0.5).
C10_OneRegion ==
    E2ECase =>
        /\ Len(Deliveries) = 1
        /\ Len(Deliveries[1].points) = 1
        /\ Deliveries[1].points[1].rect = <<5, 5, 2, 1>>
        /\ 2 * Deliveries[1].points[1].vx[1] = 7 * Deliveries[1].points[1].vx[2]
        /\ 2 * Deliveries[1].points[1].vy[1] = 1 * Deliveries[1].points[1].vy[2]

\* C10, amended: the example frame delivers exactly one region list and it
\* is empty: the two cells form the rectangle (5, 5, 2, 1), whose sad
\* variance 0 is below 2 * sadThreshold = 120, so the rectangle is dropped.
C10_NoRegion ==
    E2ECase =>
        /\ tracker_calls = <<[op |-> "update_tracks", frame |-> frame, points |-> <<>>]>>
        /\ <<<<5, 5, 2, 1>>>> \in MergedLists

C10_Example == E2ECase /\ last.outcome = "delivered"

----------------------------------------------------------------------------
(* C12, C15, C16, C18, C19: the merger on its own                          *)

\* rectangle A lies within rectangle B
Within(A, B) ==
    /\ A[1] >= B[1] /\ A[1] + A[3] <= B[1] + B[3]
    /\ A[2] >= B[2] /\ A[2] + A[4] <= B[2] + B[4]

\* the two rectangles share a cell
Overlapping(A, B) ==
    /\ A[1] < B[1] + B[3] /\ B[1] < A[1] + A[3]
    /\ A[2] < B[2] + B[4] /\ B[2] < A[2] + A[4]

\* the empty cells between the two rectangles along x and along y
GapX(A, B) == Max2(A[1], B[1]) - Min2(A[1] + A[3], B[1] + B[3])
GapY(A, B) == Max2(A[2], B[2]) - Min2(A[2] + A[4], B[2] + B[4])

\* further apart than twice the margin on at least one axis
WidelySeparated(A, B) == GapX(A, B) > 6 \/ GapY(A, B) > 6

AllSmall == \A k \in DOMAIN contours : Area(contours[k]) <= maxArea

SeparatedInputs ==
    /\ merged.done
    /\ Len(contours) >= 2
    /\ AllSmall
    /\ \A j, k \in DOMAIN contours : j # k => WidelySeparated(contours[j], contours[k])

\* C12: input rectangles (area <= maxArea) that are pairwise further apart
\* than twice the 3-cell margin on some axis come back unchanged, one entry
\* per input, in whichever order they were inserted.
C12_SeparatedKept == SeparatedInputs => merged.rects = contours

C12_Separated == SeparatedInputs /\ Len(merged.rects) = 2

\* C15: when the incoming rectangle fully contains the one list entry, the
\* entry is removed and, nothing else merging with or containing the
\* incoming rectangle, the list afterwards holds the incoming rectangle.
C15_ContainerKept ==
    (/\ merged.done
     /\ Len(contours) = 2
     /\ AllSmall
     /\ Within(contours[1], contours[2]))
    => \E k \in DOMAIN merged.rects : merged.rects[k] = contours[2]

\* the rectangles of the order-dependence example
LeftCell == <<0, 0, 1, 1>>
RightCell == <<5, 0, 1, 1>>

AsSet(s) == {s[k] : k \in DOMAIN s}

\* C16: the merger is order-dependent: the single cells at x = 0 and x = 5
\* stay two rectangles when inserted left first and become the one rectangle
\* (0, 0, 6, 1) when inserted right first.
C16_OrderMatters ==
    /\ (merged.done /\ contours = <<LeftCell, RightCell>>)
          => AsSet(merged.rects) = {LeftCell, RightCell}
    /\ (merged.done /\ contours = <<RightCell, LeftCell>>)
          => AsSet(merged.rects) = {<<0, 0, 6, 1>>}

C16_OtherOrderDiffers ==
    /\ merged.done
    /\ contours = <<RightCell, LeftCell>>
    /\ AsSet(merged.rects)
         # AsSet(removeIntersections(<<LeftCell, RightCell>>, maxArea, cols, rows))

\* C18: every input rectangle with area <= maxArea lies within at least one
\* rectangle of the list removeIntersections returns.
C18_NothingLost ==
    merged.done =>
        \A k \in DOMAIN contours :
            Area(contours[k]) <= maxArea =>
                \E j \in DOMAIN merged.rects : Within(contours[k], merged.rects[j])

\* C19: no two distinct entries of the list removeIntersections returns
\* overlap each other, nor is one contained in the other.
C19_FullyFused ==
    merged.done =>
        \A j, k \in DOMAIN merged.rects :
            j # k => ~Overlapping(merged.rects[j], merged.rects[k])

----------------------------------------------------------------------------
(* C11: the lone cell                                                      *)

\* the mask of the latest frame
LastMask == has_movement(last.a, vmin, vmax, sadThreshold, rows, cols)

\* an ACTIVE analyse call under a valid configuration whose mask has exactly
\* one true cell
LoneCell == ActiveAnalyse /\ C6_ConfigValid /\ Cardinality(LastMask) = 1

\* the 1x1 region at p carrying the raw vector of the cell
LoneRegion(p) ==
    [rect |-> <<p[1], p[2], 1, 1>>,
     vx |-> <<last.a[p].x, 1>>,
     vy |-> <<last.a[p].y, 1>>]

OnlyLoneRegion ==
    \A p \in LastMask :
        Len(Deliveries) = 1 /\ Deliveries[1].points = <<LoneRegion(p)>>

----------------------------------------------------------------------------
(* C13: the diagnostic sink                                                *)

\* C13: an analyse call during which the diagnostic sink cannot be opened
\* still calibrates (first frame) or runs the pipeline up to the tracker
\* delivery (later frames, unless the movement cap stops the frame).
C13_SinkFailureHarmless ==
    (last.op = "analyse" /\ last.outcome = "raised")
    => IF last.started
       THEN CapExceeded \/ Len(Deliveries) = 1
       ELSE started /\ tracker_sizes = <<rows, cols - 1>>

----------------------------------------------------------------------------
(* C14: a grid without cells                                               *)

\* C14: on a grid with rows = 0 or cols = 0 an analyse call fails towards
\* its caller and the analyser stays UNCALIBRATED: no setup_sizes, no
\* movement cap from those dimensions.
C14_ZeroGridRefused ==
    ((rows = 0 \/ cols = 0) /\ last.op = "analyse")
    => /\ last.outcome = "raised"
       /\ ~started
       /\ tracker_setups = 0
       /\ maxMovements = <<100, 1>>

----------------------------------------------------------------------------
(* C17: the single cell with a low sad                                     *)

LowSadCell(r) ==
    r[3] < 2 /\ r[4] < 2 /\ At(last.a, r[1], r[2]).sad < sadThreshold

\* C17: the delivered list comes from a merged list each of whose
\* single-cell rectangles with sad below sadThreshold is delivered with the
\* raw vector of its cell.
C17_LowSadCellEmitted ==
    (ActiveAnalyse /\ last.outcome = "delivered" /\ maxArea >= 1)
    => \E L \in MergedLists :
          /\ \A pt \in DeliveredPoints : \E k \in DOMAIN L : L[k] = pt.rect
          /\ \A k \in DOMAIN L :
                LowSadCell(L[k]) => LoneRegion(<<L[k][1], L[k][2]>>) \in DeliveredPoints

C17_LowSadCellSeen ==
    /\ ActiveAnalyse /\ last.outcome = "delivered"
    /\ \E pt \in DeliveredPoints : LowSadCell(pt.rect) /\ pt.vx # pt.vy

----------------------------------------------------------------------------
(* C20: the working values and the configuration store                     *)

\* C20: after construction and after every setter call, vMin, vMax,
\* minArea, maxArea and sadThreshold of the analyser equal the entries of
\* the same names in the configuration store.
C20_StoreAgrees ==
    /\ vmin = conf.vMin
    /\ vmax = conf.vMax
    /\ minArea = conf.minArea
    /\ maxArea = conf.maxArea
    /\ sadThreshold = conf.sadThreshold

====
